---- MODULE Spec2Model ----
(***************************************************************************)
(* Real-time transcription relay: the websocket session of main.py         *)
(* (websocket_transcribe_stream, response_handler) composed with the gRPC  *)
(* client of clova_grpc_client.py (ClovaSpeechClient: _metadata_sets,      *)
(* _request_iter, recognize, close).                                       *)
(*                                                                         *)
(* The backend, the transport and the websocket peer are the environment:  *)
(* the backend may answer, fail or complete a live call at any moment, and *)
(* the peer may send frames or disconnect at any moment.                   *)
(*                                                                         *)
(* main.py:246 builds the client with the keyword secret_key, and          *)
(* main.py:262-266 calls recognize() with the keyword config_json.  The     *)
(* client of clova_grpc_client.py declares neither, so with that client     *)
(* line 246 raises TypeError (clientFits = FALSE).  clientFits = TRUE is    *)
(* the session with a client that takes these calls and otherwise is the    *)
(* client of clova_grpc_client.py, given by its own three fields            *)
(* (client_id, client_secret, clova_secret_key), each empty or not after    *)
(* strip().                                                                 *)
(***************************************************************************)
EXTENDS Integers, Sequences, FiniteSets, TLC

VARIABLES
    clientFits,  \* ClovaSpeechClient takes the calls of main.py:246,262-266
    lang,        \* main.py:223  the query parameter lang, as characters
    langShort,   \* main.py:250  lang_short
    envKey,      \* main.py:86   CLOVA_SECRET_KEY is set
    sending,     \* main.py:279-313  the send_json response_task is suspended in
    cfg,         \* client fields after __init__: which of them are non-empty
    wsOpen,      \* the websocket peer is still connected
    mainPc,      \* position of websocket_transcribe_stream
    handlerPc,   \* state of response_task
    queue,       \* audio_queue
    enq,         \* every item ever put on audio_queue, in put order
    recPc,       \* position of recognize()
    ci,          \* index of the credential of the current attempt
    mi,          \* index of the method of the current attempt
    attempts,    \* (credential, method) of every call opened, in order
    outcomes,    \* how each finished call ended, in order
    lastError,   \* recognize(): last_error
    raised,      \* the exception recognize() raised to its caller
    seqPc,       \* position of _request_iter of the current call
    taken,       \* items that _request_iter of the current call dequeued
    sent,        \* requests that _request_iter of the current call yielded
    stale,       \* number of _request_iter of finished calls still at get()
    resps,       \* contents of every response yielded to response_handler
    sink,        \* every JSON message the websocket peer received
    sendFailed,  \* a send_json of response_handler raised
    chanClosed   \* grpc_client.close() was awaited

vars == <<sending, clientFits, lang, langShort, envKey, cfg, wsOpen,
          mainPc, handlerPc, queue, enq, recPc, ci, mi, attempts, outcomes,
          lastError, raised, seqPc, taken, sent, stale, resps, sink,
          sendFailed, chanClosed>>

-----------------------------------------------------------------------------
(* Bounds *)

MaxChunks == 2      \* audio chunks the peer sends in a session
MaxResp == 1        \* responses the backend sends in a session
MaxRelay == 3       \* responses the backend sends in a session of SpecRelay
MaxLen == 4         \* length of the queue content given to one _request_iter

-----------------------------------------------------------------------------
(* Values *)

None == <<"None", 0>>           \* the sentinel put on audio_queue
Chunk(i) == <<"chunk", i>>      \* the i-th non-empty audio chunk of a session
Chunks == {Chunk(1), Chunk(2)}  \* non-empty audio chunks
EmptyChunk == <<"chunk", 0>>    \* b""
Frames == Chunks \cup {EmptyChunk}
Items == Frames \cup {None}

ConfigMsg == [kind |-> "config", chunk |-> EmptyChunk]
DataMsg(c) == [kind |-> "data", chunk |-> c]

SecretKeyMd == "x-clovaspeech-api-key"
GatewayPairMd == "x-ncp-apigw-api-keyid+x-ncp-apigw-api-key"

NumMethods == 3

RetryCodes == {"UNIMPLEMENTED", "UNAUTHENTICATED", "PERMISSION_DENIED"}
FatalCodes == {"INTERNAL", "EXC"}
Codes == RetryCodes \cup FatalCodes

NoError == [code |-> "none", at |-> 0]
NoCombination == [code |-> "RuntimeError", at |-> 0]

Last(s) == s[Len(s)]
Front(s) == SubSeq(s, 1, Len(s) - 1)

-----------------------------------------------------------------------------
(* ClovaSpeechClient._metadata_sets *)

(* variant: the gateway pair is yielded before the secret key *)
MetadataSetsPairFirst(c) ==
    (IF c.id /\ c.secret THEN <<GatewayPairMd>> ELSE <<>>)
    \o (IF c.key THEN <<SecretKeyMd>> ELSE <<>>)

MetadataSets(c) ==
    (IF c.key THEN <<SecretKeyMd>> ELSE <<>>)
    \o (IF c.id /\ c.secret THEN <<GatewayPairMd>> ELSE <<>>)

-----------------------------------------------------------------------------
(* ClovaSpeechClient._request_iter: one turn of the while loop *)

(* variant: without `if not chunk: continue` *)
SeqStepNoSkip(item, out) ==
    IF item = None THEN [pc |-> "done", out |-> out]
    ELSE [pc |-> "loop", out |-> Append(out, DataMsg(item))]

SeqStep(item, out) ==
    IF item = None THEN [pc |-> "done", out |-> out]
    ELSE IF item = EmptyChunk THEN [pc |-> "loop", out |-> out]
    ELSE [pc |-> "loop", out |-> Append(out, DataMsg(item))]

SeqConfig ==
    /\ recPc \in {"live", "cancelling"}
    /\ seqPc = "config"
    /\ sent' = Append(sent, ConfigMsg)
    /\ seqPc' = "loop"
    /\ UNCHANGED <<sending, clientFits, lang, langShort, envKey, cfg, wsOpen,
                   mainPc, handlerPc, queue, enq, recPc, ci, mi, attempts,
                   outcomes, lastError, raised, taken, stale, resps, sink,
                   sendFailed, chanClosed>>

SeqGet ==
    /\ recPc \in {"live", "cancelling"}
    /\ seqPc = "loop"
    /\ queue # <<>>
    /\ LET r == SeqStep(Head(queue), sent) IN
        /\ seqPc' = r.pc
        /\ sent' = r.out
    /\ taken' = Append(taken, Head(queue))
    /\ queue' = Tail(queue)
    /\ UNCHANGED <<sending, clientFits, lang, langShort, envKey, cfg, wsOpen,
                   mainPc, handlerPc, enq, recPc, ci, mi, attempts, outcomes,
                   lastError, raised, stale, resps, sink, sendFailed,
                   chanClosed>>

(* _request_iter of a call that already ended: it is still suspended in     *)
(* audio_q.get() and takes the next item.  On an empty chunk it continues   *)
(* (clova_grpc_client.py:83-84) and waits in get() again; on the sentinel   *)
(* it ends; a chunk it yields, and the transport drops it.                  *)
StaleGet ==
    /\ stale > 0
    /\ queue # <<>>
    /\ queue' = Tail(queue)
    /\ stale' = IF Head(queue) = EmptyChunk THEN stale ELSE stale - 1
    /\ UNCHANGED <<sending, clientFits, lang, langShort, envKey, cfg, wsOpen,
                   mainPc, handlerPc, enq, recPc, ci, mi, attempts, outcomes,
                   lastError, raised, seqPc, taken, sent, resps, sink,
                   sendFailed, chanClosed>>

-----------------------------------------------------------------------------
(* Response contents.  A contents string is modelled by what json.loads     *)
(* makes of it: kind "empty" is the empty string, "notjson" a string that   *)
(* json.loads rejects, "nondict" a JSON value that is no object, "dict" a   *)
(* JSON object with the keys the relay looks at.  A key that is missing is  *)
(* "absent"; JSON values are "true", "false", "null", "0" and strings       *)
(* "s:<chars>".                                                             *)

TextVals == {"absent", "null", "s:hello", "s:hi"}
FlagVals == {"absent", "true", "false", "null", "s:no"}
CamelVals == {"absent", "true", "false"}
FalsyVals == {"false", "null", "0", "s:"}

TrShapes ==
    {[tr |-> "absent", text |-> "absent", final |-> "absent"],
     [tr |-> "nondict", text |-> "absent", final |-> "absent"]}
    \cup {[tr |-> "dict", text |-> x, final |-> f] : x \in TextVals, f \in FlagVals}

DictPayload(t, x, f, g) ==
    [kind |-> "dict", tr |-> t.tr, trText |-> t.text, trFinal |-> t.final,
     text |-> x, is_final |-> f, isFinal |-> g]

Opaque(k) ==
    [kind |-> k, tr |-> "absent", trText |-> "absent", trFinal |-> "absent",
     text |-> "absent", is_final |-> "absent", isFinal |-> "absent"]

EmptyContents == Opaque("empty")
NotJson == Opaque("notjson")
NonDict == Opaque("nondict")

Payloads ==
    {EmptyContents, NotJson, NonDict}
    \cup {DictPayload(t, x, f, g) :
            t \in TrShapes, x \in TextVals, f \in FlagVals, g \in CamelVals}

Absent == [tr |-> "absent", text |-> "absent", final |-> "absent"]
NestedHello == DictPayload([tr |-> "dict", text |-> "s:hello", final |-> "true"],
                           "absent", "absent", "absent")
FlatHi == DictPayload(Absent, "s:hi", "false", "absent")

(* the contents a backend sends within one modelled session *)
SessionPayloads == {EmptyContents, NestedHello}
RelayPayloads == {EmptyContents, NotJson, NestedHello, FlatHi}

(* dict.get(key, default) and bool(value) *)
Get(v, default) == IF v = "absent" THEN default ELSE v
Bool(v) == IF v \in FalsyVals THEN "false" ELSE "true"

ResultMsg(t, f) == [type |-> "result", text |-> t, is_final |-> f]
DebugMsg(p) == [type |-> "debug", debug |-> p]
ErrorMsg(e) == [type |-> "error", error |-> e]

(* variant: the flat shape is tested before the nested one *)
NormalizeFlatFirst(p) ==
    IF p.kind = "dict" /\ p.text # "absent"
    THEN ResultMsg(Get(p.text, "s:"), Bool(Get(p.is_final, "false")))
    ELSE IF p.kind = "dict" /\ p.tr = "dict" /\ p.trText # "absent"
    THEN ResultMsg(Get(p.trText, "s:"), Bool(Get(p.trFinal, "false")))
    ELSE DebugMsg(p)

(* variant: the flat shape reads the key isFinal *)
NormalizeCamel(p) ==
    IF p.kind = "dict" /\ p.tr = "dict" /\ p.trText # "absent"
    THEN ResultMsg(Get(p.trText, "s:"), Bool(Get(p.trFinal, "false")))
    ELSE IF p.kind = "dict" /\ p.text # "absent"
    THEN ResultMsg(Get(p.text, "s:"), Bool(Get(p.isFinal, "false")))
    ELSE DebugMsg(p)

(* response_handler: the message sent for one non-empty contents *)
Normalize(p) ==
    IF p.kind = "dict" /\ p.tr = "dict" /\ p.trText # "absent"
    THEN ResultMsg(Get(p.trText, "s:"), Bool(Get(p.trFinal, "false")))
    ELSE IF p.kind = "dict" /\ p.text # "absent"
    THEN ResultMsg(Get(p.text, "s:"), Bool(Get(p.is_final, "false")))
    ELSE DebugMsg(p)

(* variant: contents of an unknown format are not forwarded *)
RelayDropsDebug(p, out) ==
    IF p.kind = "empty" \/ Normalize(p).type = "debug" THEN out
    ELSE Append(out, Normalize(p))

(* response_handler: the sink after one response with contents p *)
Relay(p, out) ==
    IF p.kind = "empty" THEN out ELSE Append(out, Normalize(p))

-----------------------------------------------------------------------------
(* ClovaSpeechClient.recognize *)

(* variant: UNAUTHENTICATED moves on to the next method *)
ClassifyAuthContinues(code) ==
    IF code \in {"UNIMPLEMENTED", "UNAUTHENTICATED"} THEN "continue"
    ELSE IF code = "PERMISSION_DENIED" THEN "break"
    ELSE "raise"

(* variant: an AioRpcError of any other code moves on to the next method *)
ClassifyRetriesOther(code) ==
    IF code \in {"UNAUTHENTICATED", "PERMISSION_DENIED"} THEN "break"
    ELSE IF code = "EXC" THEN "raise"
    ELSE "continue"

(* the except clauses: what the loop does with a failed call *)
Classify(code) ==
    IF code = "UNIMPLEMENTED" THEN "continue"
    ELSE IF code \in {"UNAUTHENTICATED", "PERMISSION_DENIED"} THEN "break"
    ELSE "raise"

(* variant: the method is the outer loop and the credential the inner one *)
AdvanceMethodOuter(how, c, m, n) ==
    IF how = "raise" THEN [pc |-> "raise", ci |-> c, mi |-> m]
    ELSE IF how = "continue" /\ c < n
    THEN [pc |-> "live", ci |-> c + 1, mi |-> m]
    ELSE IF m < NumMethods THEN [pc |-> "live", ci |-> 1, mi |-> m + 1]
    ELSE [pc |-> "exhausted", ci |-> c, mi |-> m]

(* the two for loops: the position after `how` at credential c, method m,   *)
(* with n credentials                                                       *)
Advance(how, c, m, n) ==
    IF how = "raise" THEN [pc |-> "raise", ci |-> c, mi |-> m]
    ELSE IF how = "continue" /\ m < NumMethods
    THEN [pc |-> "live", ci |-> c, mi |-> m + 1]
    ELSE IF c < n THEN [pc |-> "live", ci |-> c + 1, mi |-> 1]
    ELSE [pc |-> "exhausted", ci |-> c, mi |-> m]

(* variant: the first error is kept *)
RememberFirst(prev, e) == IF prev = NoError THEN e ELSE prev

(* last_error = e *)
Remember(prev, e) == e

(* _request_iter of a call that ends while it is in its while loop may      *)
(* still be suspended in audio_q.get()                                      *)
StaleAfter == IF seqPc = "loop" THEN {stale, stale + 1} ELSE {stale}

(* variant: the message is sent by response_handler and again by the      *)
(* handler of the session                                                  *)
SendTwice(msg) ==
    IF wsOpen
    THEN sink' = Append(Append(sink, msg), msg) /\ UNCHANGED sendFailed
    ELSE sendFailed' = TRUE /\ UNCHANGED sink

(* what response_task is sending: nothing, the message for contents p, or   *)
(* the error message for the exception e                                    *)
NoSend == <<>>
RelaySend(p) == <<"relay", p>>
ErrorSend(e) == <<"error", e>>

(* response_task is in its `async for` over recognize(), not in a send *)
Iterating == handlerPc = "running" /\ sending = NoSend

(* websocket.send_json: delivered while the peer is connected, raises after *)
Send(msg) ==
    IF wsOpen
    THEN sink' = Append(sink, msg) /\ UNCHANGED sendFailed
    ELSE sendFailed' = TRUE /\ UNCHANGED sink

-----------------------------------------------------------------------------
(* recognize(): opening a call, and the ways a live call ends *)

(* response_task first runs: recognize() enters its loops and opens the     *)
(* first call, or finds no credential and raises RuntimeError, which        *)
(* response_handler catches and begins to report                            *)
HandlerStart ==
    /\ handlerPc = "ready"
    /\ handlerPc' = "running"
    /\ IF MetadataSets(cfg) = <<>>
       THEN /\ recPc' = "raised"
            /\ raised' = NoCombination
            /\ sending' = ErrorSend(NoCombination)
            /\ UNCHANGED <<ci, mi, attempts, seqPc>>
       ELSE /\ recPc' = "live"
            /\ ci' = 1
            /\ mi' = 1
            /\ attempts' = Append(attempts, <<1, 1>>)
            /\ seqPc' = "config"
            /\ UNCHANGED <<raised, sending>>
    /\ UNCHANGED <<clientFits, lang, langShort, envKey, cfg, wsOpen, mainPc,
                   queue, enq, outcomes, lastError, taken, sent, stale, resps,
                   sink, sendFailed, chanClosed>>

(* the live call raises: AioRpcError with a status code, or ("EXC") another *)
(* exception.  The except clause runs, and either the next call is opened   *)
(* or the error reaches response_handler, which begins to report it.  A     *)
(* _request_iter that has ended on the sentinel stays ended.                *)
AttemptFail(code) ==
    /\ recPc = "live"
    /\ Iterating
    /\ LET e == [code |-> code, at |-> Len(attempts)]
           nx == Advance(Classify(code), ci, mi, Len(MetadataSets(cfg)))
       IN
        /\ outcomes' = Append(outcomes, code)
        /\ lastError' = Remember(lastError, e)
        /\ stale' \in StaleAfter
        /\ IF nx.pc = "live"
           THEN /\ ci' = nx.ci
                /\ mi' = nx.mi
                /\ attempts' = Append(attempts, <<nx.ci, nx.mi>>)
                /\ seqPc' = "config"
                /\ taken' = <<>>
                /\ sent' = <<>>
                /\ UNCHANGED <<recPc, raised, sending>>
           ELSE /\ recPc' = "raised"
                /\ raised' = IF nx.pc = "raise" THEN e ELSE lastError'
                /\ seqPc' = IF seqPc = "done" THEN "done" ELSE "dead"
                /\ sending' = ErrorSend(raised')
                /\ UNCHANGED <<ci, mi, attempts, taken, sent>>
    /\ UNCHANGED <<clientFits, lang, langShort, envKey, cfg, wsOpen, mainPc,
                   handlerPc, queue, enq, resps, sink, sendFailed, chanClosed>>

(* the live call ends with status OK: recognize() returns and              *)
(* response_task ends                                                       *)
AttemptComplete ==
    /\ recPc = "live"
    /\ Iterating
    /\ outcomes' = Append(outcomes, "OK")
    /\ recPc' = "returned"
    /\ handlerPc' = "done"
    /\ stale' \in StaleAfter
    /\ seqPc' = IF seqPc = "done" THEN "done" ELSE "dead"
    /\ UNCHANGED <<sending, clientFits, lang, langShort, envKey, cfg, wsOpen,
                   mainPc, queue, enq, ci, mi, attempts, lastError, raised,
                   taken, sent, resps, sink, sendFailed, chanClosed>>

(* the live call yields a response with contents p to response_handler:     *)
(* empty contents are skipped, for other contents the handler builds the    *)
(* message and awaits its send_json (main.py:268-297)                       *)
Respond(p) ==
    /\ recPc = "live"
    /\ Iterating
    /\ resps' = Append(resps, p)
    /\ sending' = IF p.kind = "empty" THEN NoSend ELSE RelaySend(p)
    /\ UNCHANGED <<clientFits, lang, langShort, envKey, cfg, wsOpen, mainPc,
                   handlerPc, queue, enq, recPc, ci, mi, attempts, outcomes,
                   lastError, raised, seqPc, taken, sent, stale, sink,
                   sendFailed, chanClosed>>

(* the exception of a send_json to a peer that is gone *)
PeerGone == [code |-> "PeerGone", at |-> 0]

(* the send_json response_task awaits ends.  A message is delivered and    *)
(* the handler goes on with recognize().  When the peer is gone the send    *)
(* raises: a send inside the inner try (main.py:279,287,294) is caught by   *)
(* `except Exception` (295), which sends the contents as debug (297): the   *)
(* state with the message of p in sending and sendFailed set; when that     *)
(* send raises too, or the first send was the one of 297 (contents that     *)
(* json.loads rejects), the outer handler (307) begins to send the error    *)
(* (311).  After an error message, delivered or not, response_task ends,    *)
(* leaving recognize() suspended if it has not raised.                      *)
SendDone ==
    /\ handlerPc = "running"
    /\ sending # NoSend
    /\ IF sending[1] = "error"
       THEN /\ Send(ErrorMsg(sending[2]))
            /\ sending' = NoSend
            /\ handlerPc' = "done"
       ELSE IF wsOpen
       THEN /\ sink' = IF sendFailed THEN Append(sink, DebugMsg(sending[2]))
                       ELSE Relay(sending[2], sink)
            /\ sending' = NoSend
            /\ UNCHANGED <<sendFailed, handlerPc>>
       ELSE /\ sendFailed' = TRUE
            /\ sending' = IF sendFailed \/ sending[2].kind = "notjson"
                          THEN ErrorSend(PeerGone) ELSE sending
            /\ UNCHANGED <<sink, handlerPc>>
    /\ UNCHANGED <<clientFits, lang, langShort, envKey, cfg, wsOpen, mainPc,
                   queue, enq, recPc, ci, mi, attempts, outcomes, lastError,
                   raised, seqPc, taken, sent, stale, resps, chanClosed>>

(* the exception of a send_json, or the cancel, has left the `async for`    *)
(* of main.py:262 while recognize() was suspended at its yield: nothing     *)
(* refers to the generator any more, and it is finalized in a later turn    *)
(* of the event loop, its call ending with it.  response_task has ended     *)
(* by then, or is still in the send of the error message (main.py:311).     *)
Abandon ==
    /\ recPc = "live"
    /\ \/ handlerPc \in {"done", "cancelled"}
       \/ sending # NoSend /\ sending[1] = "error"
    /\ recPc' = "abandoned"
    /\ seqPc' = IF seqPc = "done" THEN "done" ELSE "dead"
    /\ stale' \in StaleAfter
    /\ UNCHANGED <<sending, clientFits, lang, langShort, envKey, cfg, wsOpen,
                   mainPc, handlerPc, queue, enq, ci, mi, attempts, outcomes,
                   lastError, raised, taken, sent, resps, sink, sendFailed,
                   chanClosed>>

-----------------------------------------------------------------------------
(* websocket_transcribe_stream *)

(* main.py:250: (lang or "ko-KR").split("-")[0].lower(), on sequences of    *)
(* characters                                                               *)
UpperCase == <<"A", "B", "C", "D", "E", "F", "G", "H", "I", "J", "K", "L", "M",
               "N", "O", "P", "Q", "R", "S", "T", "U", "V", "W", "X", "Y", "Z">>
LowerCase == <<"a", "b", "c", "d", "e", "f", "g", "h", "i", "j", "k", "l", "m",
               "n", "o", "p", "q", "r", "s", "t", "u", "v", "w", "x", "y", "z">>
LowerChar(c) ==
    IF \E i \in 1..Len(UpperCase) : UpperCase[i] = c
    THEN LowerCase[CHOOSE i \in 1..Len(UpperCase) : UpperCase[i] = c]
    ELSE c
Lower(s) == [i \in 1..Len(s) |-> LowerChar(s[i])]

(* s.split("-")[0] *)
RECURSIVE SplitFirst(_)
SplitFirst(s) ==
    IF s = <<>> \/ Head(s) = "-" THEN <<>>
    ELSE <<Head(s)>> \o SplitFirst(Tail(s))

KoKR == <<"k", "o", "-", "K", "R">>

LangShort(l) == Lower(SplitFirst(IF l = <<>> THEN KoKR ELSE l))

(* the language tags a peer may ask for *)
Primaries == {<<"k", "o">>, <<"e", "n">>, <<"j", "a">>, <<"f", "r">>,
              <<"z", "h">>, <<"Z", "H">>, <<"E", "n">>, <<"y", "u", "e">>}
Regions == {<<"K", "R">>, <<"U", "S">>, <<"J", "P">>, <<"F", "R">>,
            <<"C", "N">>, <<"T", "W">>, <<"H", "a", "n", "t", "-", "T", "W">>}
LangTags ==
    {<<>>} \cup Primaries
    \cup {p \o <<"-">> \o r : p \in Primaries, r \in Regions}

(* main.py:239-316: the environment check, the client, lang_short,          *)
(* response_task                                                            *)
MainStart ==
    /\ mainPc = "start"
    /\ IF envKey /\ clientFits
       THEN /\ langShort' = LangShort(lang)
            /\ mainPc' = "recv"
            /\ handlerPc' = "ready"
            /\ UNCHANGED <<queue, enq, sink, sendFailed>>
       ELSE /\ Send(ErrorMsg([code |-> IF envKey THEN "TypeError"
                                       ELSE "RuntimeError",
                              at |-> 0]))
            /\ queue' = Append(queue, None)
            /\ enq' = Append(enq, None)
            /\ mainPc' = "closed"
            /\ UNCHANGED <<handlerPc, langShort>>
    /\ UNCHANGED <<sending, clientFits, lang, envKey, cfg, wsOpen, recPc, ci,
                   mi, attempts, outcomes, lastError, raised, seqPc, taken,
                   sent, stale, resps, chanClosed>>

NumChunks(s) == Len(SelectSeq(s, LAMBDA x : x # None))

(* the frames the peer may send next: the next audio chunk, or a frame     *)
(* without bytes                                                            *)
NextFrames == {Chunk(NumChunks(enq) + 1), EmptyChunk}

(* main.py:320-323: one frame from the peer *)
MainReceive(f) ==
    /\ mainPc = "recv"
    /\ wsOpen
    /\ NumChunks(enq) < MaxChunks
    /\ IF f # EmptyChunk
       THEN queue' = Append(queue, f) /\ enq' = Append(enq, f)
       ELSE UNCHANGED <<queue, enq>>
    /\ UNCHANGED <<sending, clientFits, lang, langShort, envKey, cfg, wsOpen,
                   mainPc, handlerPc, recPc, ci, mi, attempts, outcomes,
                   lastError, raised, seqPc, taken, sent, stale, resps, sink,
                   sendFailed, chanClosed>>

(* the peer goes away *)
ClientDisconnect ==
    /\ wsOpen
    /\ mainPc # "closed"
    /\ wsOpen' = FALSE
    /\ UNCHANGED <<sending, clientFits, lang, langShort, envKey, cfg, mainPc,
                   handlerPc, queue, enq, recPc, ci, mi, attempts, outcomes,
                   lastError, raised, seqPc, taken, sent, stale, resps, sink,
                   sendFailed, chanClosed>>

(* main.py:327-356: receive() reports the disconnect; k sentinels are put   *)
(* (2: the WebSocketDisconnect clause and the finally clause; 1: another    *)
(* exception, whose report to the closed peer fails, and the finally        *)
(* clause).  response_task, if not done, is cancelled and awaited: the      *)
(* cancel reaches it when it next runs, in recognize() if it is iterating,  *)
(* in its send_json otherwise.  With response_task done the channel is      *)
(* closed at once, and with it a call left live.                            *)
Cleanup(k) ==
    /\ mainPc = "recv"
    /\ ~wsOpen
    /\ queue' = queue \o [i \in 1..k |-> None]
    /\ enq' = enq \o [i \in 1..k |-> None]
    /\ IF handlerPc \in {"ready", "running"}
       THEN /\ handlerPc' = "cancelling"
            /\ recPc' = IF recPc = "live" /\ sending = NoSend
                        THEN "cancelling" ELSE recPc
            /\ mainPc' = "awaiting"
            /\ UNCHANGED <<chanClosed, seqPc>>
       ELSE /\ chanClosed' = TRUE
            /\ mainPc' = "closed"
            /\ recPc' = IF recPc = "live" THEN "abandoned" ELSE recPc
            /\ seqPc' = IF recPc = "live" /\ seqPc \in {"config", "loop"}
                        THEN "dead" ELSE seqPc
            /\ UNCHANGED handlerPc
    /\ UNCHANGED <<sending, clientFits, lang, langShort, envKey, cfg, wsOpen,
                   ci, mi, attempts, outcomes, lastError, raised, taken, sent,
                   stale, resps, sink, sendFailed>>

(* main.py:345-349: the cancel reaches response_task, which ends: a send    *)
(* it was suspended in is dropped; if it was iterating, recognize() ends    *)
(* with it, and the live call and its _request_iter are cancelled           *)
CancelLands ==
    /\ mainPc = "awaiting"
    /\ handlerPc = "cancelling"
    /\ handlerPc' = "cancelled"
    /\ sending' = NoSend
    /\ recPc' = IF recPc = "cancelling" THEN "cancelled" ELSE recPc
    /\ seqPc' = IF recPc = "cancelling" /\ seqPc \in {"config", "loop"}
                THEN "dead" ELSE seqPc
    /\ UNCHANGED <<clientFits, lang, langShort, envKey, cfg, wsOpen, mainPc,
                   queue, enq, ci, mi, attempts, outcomes, lastError, raised,
                   taken, sent, stale, resps, sink, sendFailed, chanClosed>>

(* variant: the handler ends without grpc_client.close() *)
CloseChannelKeepsOpen ==
    /\ mainPc = "awaiting"
    /\ handlerPc = "cancelled"
    /\ mainPc' = "closed"
    /\ recPc' = IF recPc = "live" THEN "abandoned" ELSE recPc
    /\ seqPc' = IF recPc = "live" /\ seqPc \in {"config", "loop"}
                THEN "dead" ELSE seqPc
    /\ UNCHANGED <<sending, clientFits, lang, langShort, envKey, cfg, wsOpen,
                   handlerPc, queue, enq, ci, mi, attempts, outcomes,
                   lastError, raised, taken, sent, stale, resps, sink,
                   sendFailed, chanClosed>>

(* main.py:349-356: the handler resumes from `await response_task` and      *)
(* closes the channel, and with it a call left live                         *)
CloseChannel ==
    /\ mainPc = "awaiting"
    /\ handlerPc = "cancelled"
    /\ chanClosed' = TRUE
    /\ mainPc' = "closed"
    /\ recPc' = IF recPc = "live" THEN "abandoned" ELSE recPc
    /\ seqPc' = IF recPc = "live" /\ seqPc \in {"config", "loop"}
                THEN "dead" ELSE seqPc
    /\ UNCHANGED <<sending, clientFits, lang, langShort, envKey, cfg, wsOpen,
                   handlerPc, queue, enq, ci, mi, attempts, outcomes,
                   lastError, raised, taken, sent, stale, resps, sink,
                   sendFailed>>

-----------------------------------------------------------------------------
(* The session *)

(* the handler after websocket.accept(), main.py:232-237 *)
Accepted ==
    /\ langShort = <<>>
    /\ sending = NoSend
    /\ wsOpen = TRUE
    /\ mainPc = "start"
    /\ handlerPc = "none"
    /\ queue = <<>>
    /\ enq = <<>>
    /\ recPc = "idle"
    /\ ci = 0
    /\ mi = 0
    /\ attempts = <<>>
    /\ outcomes = <<>>
    /\ lastError = NoError
    /\ raised = NoError
    /\ seqPc = "none"
    /\ taken = <<>>
    /\ sent = <<>>
    /\ stale = 0
    /\ resps = <<>>
    /\ sink = <<>>
    /\ sendFailed = FALSE
    /\ chanClosed = FALSE

Init ==
    /\ clientFits \in BOOLEAN
    /\ lang = KoKR
    /\ envKey \in BOOLEAN
    /\ cfg \in [id : BOOLEAN, secret : BOOLEAN, key : BOOLEAN]
    /\ Accepted

Next ==
    \/ MainStart
    \/ HandlerStart
    \/ \E f \in NextFrames : MainReceive(f)
    \/ ClientDisconnect
    \/ \E k \in {1, 2} : Cleanup(k)
    \/ CancelLands
    \/ CloseChannel
    \/ SendDone
    \/ Abandon
    \/ SeqConfig
    \/ SeqGet
    \/ StaleGet
    \/ \E code \in Codes : AttemptFail(code)
    \/ AttemptComplete
    \/ \E p \in SessionPayloads : Len(resps) < MaxResp /\ Respond(p)

Spec == Init /\ [][Next]_vars

-----------------------------------------------------------------------------
(* One call is live and is streaming; used to start the specifications of   *)
(* _request_iter and of the normalisation of response_handler.              *)

Streaming ==
    /\ sending = NoSend
    /\ clientFits = TRUE
    /\ lang = KoKR
    /\ langShort = LangShort(KoKR)
    /\ envKey = TRUE
    /\ cfg = [id |-> FALSE, secret |-> FALSE, key |-> TRUE]
    /\ wsOpen = TRUE
    /\ mainPc = "recv"
    /\ handlerPc = "running"
    /\ recPc = "live"
    /\ ci = 1
    /\ mi = 1
    /\ attempts = <<<<1, 1>>>>
    /\ outcomes = <<>>
    /\ lastError = NoError
    /\ raised = NoError
    /\ seqPc = "config"
    /\ taken = <<>>
    /\ sent = <<>>
    /\ stale = 0
    /\ resps = <<>>
    /\ sink = <<>>
    /\ sendFailed = FALSE
    /\ chanClosed = FALSE

BSeq(S, n) == UNION {[1..k -> S] : k \in 0..n}

(* _request_iter over every queue content of at most MaxLen items *)
InitSeq ==
    /\ Streaming
    /\ queue \in BSeq(Items, MaxLen)
    /\ enq = queue

NextSeq ==
    \/ SeqConfig
    \/ SeqGet

SpecSeq == InitSeq /\ [][NextSeq]_vars

(* response_handler over one response of every modelled contents *)
InitNorm ==
    /\ Streaming
    /\ queue = <<>>
    /\ enq = <<>>

NextNorm ==
    \/ \E p \in Payloads : resps = <<>> /\ Respond(p)
    \/ SendDone

SpecNorm == InitNorm /\ [][NextNorm]_vars

(* The session of main.py, whose client has the secret key alone           *)
(* (main.py:246)                                                            *)
InitSession ==
    /\ Init
    /\ cfg = [id |-> FALSE, secret |-> FALSE, key |-> TRUE]

(* That session under the scheduling of the event loop: the handler, once  *)
(* receive() can report the disconnect, runs its cleanup (none of its      *)
(* awaits there blocks: the queue is unbounded, main.py:233), a cancelled  *)
(* response_task is run to its end, and the handler waiting for it resumes *)
FairSpec ==
    /\ InitSession
    /\ [][Next]_vars
    /\ WF_vars(\E k \in {1, 2} : Cleanup(k))
    /\ WF_vars(CancelLands)
    /\ WF_vars(CloseChannel)

(* recognize() on its own, not cancelled, over every queue content of at   *)
(* most MaxLen items: the backend may fail the live call with a status      *)
(* that recognize() retries, and ends a call whose outbound side            *)
(* _request_iter has closed                                                 *)
InitRec ==
    /\ Streaming
    /\ queue \in BSeq(Items, MaxLen)
    /\ enq = queue

NextRec ==
    \/ SeqConfig
    \/ SeqGet
    \/ StaleGet
    \/ \E code \in RetryCodes : AttemptFail(code)
    \/ seqPc = "done" /\ AttemptComplete

SpecRec == InitRec /\ [][NextRec]_vars

(* lang_short over every language tag *)
InitLang ==
    /\ clientFits = TRUE
    /\ lang \in LangTags
    /\ envKey = TRUE
    /\ cfg = [id |-> FALSE, secret |-> FALSE, key |-> TRUE]
    /\ Accepted

NextLang ==
    \/ MainStart

SpecLang == InitLang /\ [][NextLang]_vars

-----------------------------------------------------------------------------
(* The session of main.py seen from the relay: the peer sends no audio,     *)
(* the backend sends up to MaxRelay responses.                              *)

NextRelay ==
    \/ MainStart
    \/ HandlerStart
    \/ ClientDisconnect
    \/ \E k \in {1, 2} : Cleanup(k)
    \/ CancelLands
    \/ CloseChannel
    \/ SendDone
    \/ Abandon
    \/ SeqConfig
    \/ SeqGet
    \/ StaleGet
    \/ \E code \in Codes : AttemptFail(code)
    \/ AttemptComplete
    \/ \E p \in RelayPayloads : Len(resps) < MaxRelay /\ Respond(p)

SpecRelay == InitSession /\ [][NextRelay]_vars

-----------------------------------------------------------------------------
(* Properties of the negotiation (recognize) *)

NumCreds == Len(MetadataSets(cfg))
CredOf(i) == MetadataSets(cfg)[attempts[i][1]]
LexLess(a, b) == a[1] < b[1] \/ (a[1] = b[1] /\ a[2] < b[2])
AuthCodes == {"UNAUTHENTICATED", "PERMISSION_DENIED"}

(* C1: calls are opened in strict priority order, credential outer and     *)
(* method inner, starting at the first pair; a call that completes          *)
(* successfully is the last call opened.                                    *)
C1_PriorityOrder ==
    /\ attempts # <<>> => attempts[1] = <<1, 1>>
    /\ \A i \in 1..Len(attempts) :
        /\ attempts[i][1] \in 1..NumCreds
        /\ attempts[i][2] \in 1..NumMethods
    /\ \A i \in 1..(Len(attempts) - 1) : LexLess(attempts[i], attempts[i + 1])
    /\ \A i \in 1..Len(outcomes) :
        outcomes[i] = "OK" => i = Len(attempts) /\ recPc = "returned"

C1_Witness ==
    /\ attempts = <<<<1, 1>>, <<1, 2>>, <<2, 1>>>>
    /\ outcomes = <<"UNIMPLEMENTED", "UNAUTHENTICATED", "OK">>
    /\ recPc = "returned"
    /\ mainPc = "recv"

(* C2: after UNIMPLEMENTED the next call has the same credential and the   *)
(* next method (when the credential has one left); after UNAUTHENTICATED    *)
(* or PERMISSION_DENIED the next call has the next credential and the       *)
(* first method, and no later call uses the rejected credential.            *)
C2_FailureClass ==
    \A i \in 1..(Len(attempts) - 1) :
        LET a == attempts[i]
            b == attempts[i + 1]
        IN
        /\ outcomes[i] \in RetryCodes
        /\ (outcomes[i] = "UNIMPLEMENTED" /\ a[2] < NumMethods)
            => b = <<a[1], a[2] + 1>>
        /\ (outcomes[i] = "UNIMPLEMENTED" /\ a[2] = NumMethods)
            => b = <<a[1] + 1, 1>>
        /\ outcomes[i] \in AuthCodes
            => /\ b = <<a[1] + 1, 1>>
               /\ \A j \in (i + 1)..Len(attempts) : attempts[j][1] # a[1]

C2_Witness ==
    /\ attempts = <<<<1, 1>>, <<1, 2>>, <<2, 1>>, <<2, 2>>>>
    /\ outcomes = <<"UNIMPLEMENTED", "PERMISSION_DENIED", "UNIMPLEMENTED">>
    /\ recPc = "live"

(* C3: a failure of any other kind is the last thing recognize() does: it  *)
(* is raised to response_handler and no further call is opened.             *)
C3_FatalAborts ==
    \A i \in 1..Len(outcomes) :
        outcomes[i] \in FatalCodes
        => /\ i = Len(attempts)
           /\ recPc = "raised"
           /\ raised = [code |-> outcomes[i], at |-> i]
           /\ handlerPc \in {"running", "done", "cancelling", "cancelled"}
           /\ handlerPc = "running" => sending = ErrorSend(raised)

C3_Witness ==
    /\ NumCreds = 2
    /\ attempts = <<<<1, 1>>, <<1, 2>>>>
    /\ outcomes = <<"UNIMPLEMENTED", "INTERNAL">>
    /\ recPc = "raised"
    /\ mainPc = "recv"

AllRetryable ==
    /\ attempts # <<>>
    /\ Len(outcomes) = Len(attempts)
    /\ \A i \in 1..Len(outcomes) : outcomes[i] \in RetryCodes

(* C4: when every call made failed with a retryable code, recognize() has  *)
(* raised the error of the last call, and response_handler sends the peer   *)
(* an error message for it: it is being sent, or it has been delivered,     *)
(* unless the peer was already gone or the session was closed meanwhile.    *)
C4_LastError ==
    AllRetryable
    => /\ recPc = "raised"
       /\ raised = [code |-> Last(outcomes), at |-> Len(attempts)]
       /\ handlerPc \in {"running", "done", "cancelling", "cancelled"}
       /\ handlerPc = "running" => sending = ErrorSend(raised)
       /\ handlerPc = "done"
          => IF sendFailed
             THEN \A i \in 1..Len(sink) : sink[i].type # "error"
             ELSE sink # <<>> /\ Last(sink) = ErrorMsg(raised)

C4_Witness ==
    /\ outcomes = <<"UNIMPLEMENTED", "UNAUTHENTICATED">>
    /\ NumCreds = 1
    /\ recPc = "raised"
    /\ sink # <<>>
    /\ Last(sink) = ErrorMsg([code |-> "UNAUTHENTICATED", at |-> 2])

BothConfigured == cfg.key /\ cfg.id /\ cfg.secret

(* C5 as stated: with both credentials configured, the gateway pair is     *)
(* tried first, then the secret key, then a bearer token.                   *)
C5_PairFirst ==
    (BothConfigured /\ attempts # <<>>) => CredOf(1) = GatewayPairMd

(* C5 as the code has it: with both credentials configured, the secret key *)
(* is tried first, then the gateway pair; no bearer token is ever tried.    *)
C5_SecretKeyFirst ==
    BothConfigured
    => /\ attempts # <<>> => CredOf(1) = SecretKeyMd
       /\ \A i \in 1..Len(attempts) : CredOf(i) \in {SecretKeyMd, GatewayPairMd}
       /\ \A i, j \in 1..Len(attempts) :
            (CredOf(i) = SecretKeyMd /\ CredOf(j) = GatewayPairMd) => i < j

C5_Witness ==
    /\ BothConfigured
    /\ Len(attempts) = 2
    /\ CredOf(1) = SecretKeyMd
    /\ CredOf(2) = GatewayPairMd
    /\ outcomes = <<"UNAUTHENTICATED">>

-----------------------------------------------------------------------------
(* Properties of the request sequence (_request_iter) *)

IsChunk(x) == x # None /\ x # EmptyChunk
ChunksOf(s) == SelectSeq(s, IsChunk)
DataOf(s) == [i \in 1..Len(ChunksOf(s)) |-> DataMsg(ChunksOf(s)[i])]
SentChunks == [i \in 1..(Len(sent) - 1) |-> sent[i + 1].chunk]

(* C6: for every queue content, the requests yielded are one Config first, *)
(* then one Data per non-empty chunk dequeued, in dequeue order, which is   *)
(* queue order; an empty chunk yields nothing; the sentinel ends the        *)
(* sequence and nothing is dequeued after it.                               *)
C6_Sequencer ==
    /\ taken \o queue = enq
    /\ sent = IF seqPc = "config" THEN <<>> ELSE <<ConfigMsg>> \o DataOf(taken)
    /\ seqPc = "done" <=> (taken # <<>> /\ Last(taken) = None)
    /\ \A i \in 1..(Len(taken) - 1) : taken[i] # None

C6_Witness ==
    /\ enq = <<Chunk(1), EmptyChunk, Chunk(2), None>>
    /\ queue = <<>>
    /\ seqPc = "done"
    /\ sent = <<ConfigMsg, DataMsg(Chunk(1)), DataMsg(Chunk(2))>>

(* C7 as stated: when a call that has begun to stream completes            *)
(* successfully, every chunk put so far has been sent on that call's        *)
(* stream exactly once and in order, or is still in the queue.              *)
C7_NoLossAcrossAttempts ==
    [][(recPc = "live" /\ recPc' = "returned" /\ sent' # <<>>)
        => SentChunks' \o ChunksOf(queue') = ChunksOf(enq')]_vars

-----------------------------------------------------------------------------
(* Properties of the relay (response_handler) *)

Booleans == {"true", "false"}
IsNested(p) == p.kind = "dict" /\ p.tr = "dict" /\ p.trText # "absent"
IsFlat(p) == p.kind = "dict" /\ p.text # "absent"

(* C8: nested contents with text t and final f give {text t, is_final f};  *)
(* flat contents with text t and is_final f give the same two values;       *)
(* contents that are no JSON, no object, or of neither shape give a debug   *)
(* message with the contents; the nested shape wins over the flat one.      *)
C8_Normalize ==
    (resps # <<>> /\ resps[1].kind # "empty" /\ sending = NoSend)
    => /\ Len(sink) = 1
       /\ LET p == resps[1]
              m == sink[1]
          IN
          /\ (IsNested(p) /\ p.trFinal \in Booleans)
                => m = [type |-> "result", text |-> p.trText, is_final |-> p.trFinal]
          /\ (~IsNested(p) /\ IsFlat(p) /\ p.is_final \in Booleans)
                => m = [type |-> "result", text |-> p.text, is_final |-> p.is_final]
          /\ (~IsNested(p) /\ ~IsFlat(p))
                => m = [type |-> "debug", debug |-> p]

C8_Witness ==
    /\ resps = <<DictPayload([tr |-> "dict", text |-> "s:hello", final |-> "true"],
                             "s:hi", "false", "absent")>>
    /\ sink = <<[type |-> "result", text |-> "s:hello", is_final |-> "true"]>>

IsCamelFlat(p) == ~IsNested(p) /\ IsFlat(p) /\ p.isFinal \in Booleans

(* C9 as stated: flat contents {text t, isFinal b} give {text t,           *)
(* is_final b}.                                                             *)
C9_CamelFinal ==
    (resps # <<>> /\ IsCamelFlat(resps[1]) /\ resps[1].is_final = "absent"
     /\ sending = NoSend)
    => sink = <<[type |-> "result", text |-> resps[1].text,
                 is_final |-> resps[1].isFinal]>>

(* C9 as the code has it: flat contents are recognized by their key text,  *)
(* and is_final is read from the key is_final alone: the value of isFinal   *)
(* is ignored, and without a key is_final the message says false.           *)
C9_SnakeFinal ==
    (resps # <<>> /\ IsCamelFlat(resps[1]) /\ sending = NoSend)
    => /\ Len(sink) = 1
       /\ sink[1].type = "result"
       /\ sink[1].text = resps[1].text
       /\ sink[1].is_final =
            IF resps[1].is_final \in {"true", "s:no"} THEN "true" ELSE "false"

C9_Witness ==
    /\ resps = <<DictPayload(Absent, "s:hi", "absent", "true")>>
    /\ sink = <<[type |-> "result", text |-> "s:hi", is_final |-> "false"]>>

Relayed == SelectSeq(sink, LAMBDA m : m.type # "error")
NonEmptyResps == SelectSeq(resps, LAMBDA p : p.kind # "empty")
Expected == [i \in 1..Len(NonEmptyResps) |-> Normalize(NonEmptyResps[i])]

(* the message for the last response is not delivered: its send_json has   *)
(* not ended yet, or it raised because the peer is gone (the handler is in  *)
(* the sends that follow, or has ended), or the cleanup cancelled it.  In   *)
(* the last two cases recognize() is left suspended at its yield, and is    *)
(* finalized later.                                                         *)
RelayLost ==
    \/ recPc = "live" /\ sending # NoSend
    \/ recPc = "live" /\ handlerPc \in {"done", "cancelled"}
    \/ recPc = "abandoned"

(* C10 as stated: every response gives exactly one message to the peer,    *)
(* once its send_json has ended and unless the peer is gone.                *)
C10_OnePerResponse ==
    ~RelayLost => Len(Relayed) = Len(resps)

(* C10 as the code has it: every response with non-empty contents gives    *)
(* exactly one message, in arrival order, and a response with empty         *)
(* contents gives none; the one message whose send_json has not ended, or   *)
(* met a peer that is gone, is the last and is not delivered.               *)
C10_OnePerNonEmpty ==
    Relayed = IF RelayLost THEN Front(Expected) ELSE Expected

C10_Witness ==
    /\ resps = <<NotJson, EmptyContents, NestedHello>>
    /\ sink = <<DebugMsg(NotJson), ResultMsg("s:hello", "true")>>

-----------------------------------------------------------------------------
(* Properties of the session (websocket_transcribe_stream) *)

ZhCN == <<"z", "h", "-", "C", "N">>

(* C11 as stated: lang_short is ko for ko-KR, en for en-US, ja for ja-JP,  *)
(* fr for fr-FR, and zh-CN for zh-CN.                                      *)
C11_LangShort ==
    mainPc # "start"
    => /\ lang = KoKR => langShort = <<"k", "o">>
       /\ lang = <<"e", "n", "-", "U", "S">> => langShort = <<"e", "n">>
       /\ lang = <<"j", "a", "-", "J", "P">> => langShort = <<"j", "a">>
       /\ lang = <<"f", "r", "-", "F", "R">> => langShort = <<"f", "r">>
       /\ lang = ZhCN => langShort = ZhCN

(* C12 as stated: once the session has started, with a configured          *)
(* credential it is negotiating (the relay task exists, and recognize(),   *)
(* once running with a usable credential, has opened a call); with no      *)
(* credential no call is opened and the peer is sent one error message.    *)
C12_SessionStart ==
    mainPc # "start"
    => IF envKey
       THEN /\ handlerPc # "none"
            /\ (recPc # "idle" /\ NumCreds > 0) => attempts # <<>>
       ELSE /\ handlerPc = "none"
            /\ attempts = <<>>
            /\ \/ sendFailed
               \/ sink = <<ErrorMsg([code |-> "RuntimeError", at |-> 0])>>

SessionClosed ==
    /\ mainPc = "closed"
    /\ \E i \in 1..Len(enq) : enq[i] = None
    /\ handlerPc \in {"done", "cancelled"}
    /\ chanClosed

(* C13: when the peer disconnects while the session is streaming (the      *)
(* receive loop is running), the session eventually is closed: a sentinel  *)
(* has been enqueued, the relay task is not running, the channel is closed.*)
C13_DisconnectCloses == (~wsOpen /\ mainPc = "recv") ~> SessionClosed

(* the peer left a session with a live call, the relay task was cancelled  *)
(* and the session is closed                                               *)
C13_Witness ==
    /\ ~wsOpen
    /\ SessionClosed
    /\ handlerPc = "cancelled"
    /\ recPc = "cancelled"
    /\ sent # <<>>

Sentinels(s) == Len(SelectSeq(s, LAMBDA x : x = None))

(* C14 as stated: when a session with a live call has been shut down, the  *)
(* outbound side of the call was ended exactly once, by the sequencer on   *)
(* the first sentinel, and no later sentinel was dequeued.                 *)
C14_OneTerminalSignal ==
    (mainPc = "closed" /\ recPc = "cancelled")
    => /\ seqPc = "done"
       /\ Sentinels(enq) - Sentinels(queue) <= 1

(* the chunks enqueued ahead of the first sentinel of s *)
RECURSIVE BeforeSentinel(_)
BeforeSentinel(s) ==
    IF s = <<>> \/ Head(s) = None THEN <<>>
    ELSE <<Head(s)>> \o BeforeSentinel(Tail(s))

(* C15 as stated: the relay task is never cancelled while chunks are still *)
(* queued ahead of the sentinel, and when a streaming session is closed    *)
(* every chunk enqueued before the sentinel was sent as Data and the       *)
(* outbound side was ended by the sequencer.                               *)
C15_GracefulDrain ==
    [][ /\ (handlerPc = "running" /\ handlerPc' = "cancelling")
           => ChunksOf(BeforeSentinel(queue')) = <<>>
        /\ (recPc = "cancelling" /\ recPc' = "cancelled")
           => /\ seqPc = "done"
              /\ Len(attempts) = 1
                 => SentChunks = ChunksOf(BeforeSentinel(enq)) ]_vars

(* C16 as stated: once recognize() has raised, the session accepts no more *)
(* audio and its teardown does not wait for the peer: while the receive    *)
(* loop is still running the cleanup can run.                              *)
C16_ErrorTearsDown ==
    [][ recPc = "raised"
        => /\ ChunksOf(enq') = ChunksOf(enq)
           /\ mainPc = "recv" => ENABLED (\E k \in {1, 2} : Cleanup(k)) ]_vars

(* C17 as stated: once a response has been delivered to the peer,          *)
(* recognize() opens no new call.                                          *)
C17_NoAttemptAfterResponse ==
    [][Relayed # <<>> => attempts' = attempts]_vars

(* the _request_iter generators that can still take an item off the queue *)
Consumers == stale + (IF seqPc \in {"config", "loop"} THEN 1 ELSE 0)

(* C18 as stated: there is at most one live call and at most one consumer  *)
(* of the queue; the sequencer of a failed call no longer dequeues once    *)
(* the next call has started.                                              *)
C18_OneConsumer ==
    /\ Len(attempts) <= Len(outcomes) + 1
    /\ Consumers <= 1

(* C19: the peer is sent at most one error message, and nothing after it:  *)
(* an error message in the sink is the last message of the sink.           *)
C19_OneErrorLast ==
    \A i \in 1..Len(sink) : sink[i].type = "error" => i = Len(sink)

(* a result was relayed, then the call failed and the error was reported,  *)
(* and the peer went on sending audio                                      *)
C19_Witness ==
    /\ Len(sink) = 2
    /\ sink[1].type = "result"
    /\ sink[2].type = "error"
    /\ recPc = "raised"
    /\ ChunksOf(queue) # <<>>

(* C20 as stated: with a sentinel enqueued, a live call of recognize() is  *)
(* never left with its _request_iter waiting on an empty queue, where      *)
(* nothing but a failure of the call itself can end recognize().           *)
C20_NeverBlocked ==
    (Sentinels(enq) > 0 /\ recPc = "live")
    => ~(seqPc = "loop" /\ queue = <<>>)

====
